---- MODULE Spec2Model ----
(***************************************************************************)
(* The Refactoring Swarm: the mission orchestrator (run_swarm), the repair *)
(* loop controller (process_file), the judge's test-result interpreter     *)
(* (run_tests, _parse_pytest_output, _analyze_failures_for_fixer), the    *)
(* tolerance evaluator (evaluate_with_tolerance) and the fixer's           *)
(* validation of the code it is about to write (apply_fixes).              *)
(*                                                                         *)
(* Text is modelled at the level of tokens: a raw pytest output is the     *)
(* sequence of its lines (output.split('\n')), a line is the sequence of   *)
(* its whitespace-separated tokens, punctuation being a token of its own.  *)
(* A substring test of the code ('passed' in line) is a test on the tokens *)
(* of the line, a regular expression is a pattern on consecutive tokens.   *)
(***************************************************************************)
EXTENDS Integers, Sequences, FiniteSets, TLC

(***************************************************************************)
(* Bounds of the model.                                                    *)
(***************************************************************************)
MaxLines == 3
MaxFiles == 2
MaxCount == 11

(***************************************************************************)
(* Program constants.                                                      *)
(***************************************************************************)
MAX_ITERATIONS == 10
MIN_TESTS_FOR_TOLERANCE == 10
\* PASS_RATE_THRESHOLD = 0.90, kept as the fraction ThresholdNum / ThresholdDen
ThresholdNum == 9
ThresholdDen == 10
\* _extract_error_logs falls back to the last LogWindow lines of the output
LogWindow == 30

None == "None"

(***************************************************************************)
(* Tokens.                                                                 *)
(***************************************************************************)
\* int(match.group(1)) for the digit strings of the catalogue
NumVal == ("0" :> 0) @@ ("1" :> 1) @@ ("2" :> 2) @@ ("9" :> 9) @@ ("10" :> 10)

IsNum(t) == t \in DOMAIN NumVal

\* str.lower() on one token
Lower(t) ==
    CASE t = "ERROR" -> "error"
      [] t = "ERRORS" -> "errors"
      [] t = "FAILED" -> "failed"
      [] t = "FAILURES" -> "failures"
      [] t = "PASSED" -> "passed"
      [] t = "E" -> "e"
      [] t = "KeyError" -> "keyerror"
      [] t = "TypeError" -> "typeerror"
      [] t = "ZeroDivisionError" -> "zerodivisionerror"
      [] OTHER -> t

\* the pairs <<token, word>> where word is a proper substring of token
Inside ==
    { <<"errors", "error">>, <<"items", "item">>, <<"ERRORS", "ERROR">>,
      <<"FAILURES", "FAILURE">> }

\* `w in t` for one token t (case-sensitive, as in Python)
Has(t, w) == t = w \/ <<t, w>> \in Inside

\* `w in line`
LineHas(line, w) == \E i \in 1..Len(line) : Has(line[i], w)

\* `w in output`
OutputHas(output, w) == \E k \in 1..Len(output) : LineHas(output[k], w)

LowerLine(line) == [i \in 1..Len(line) |-> Lower(line[i])]

\* `w in output.lower()`
OutputHasLower(output, w) ==
    \E k \in 1..Len(output) : LineHas(LowerLine(output[k]), w)

\* `phrase in line.lower()` for a phrase of several words
LineHasPhraseLower(line, phrase) ==
    LET l == LowerLine(line) IN
    \E i \in 1..Len(l) :
        /\ i + Len(phrase) - 1 <= Len(l)
        /\ SubSeq(l, i, i + Len(phrase) - 1) = phrase

\* `phrase in output.lower()`
OutputHasPhraseLower(output, phrase) ==
    \E k \in 1..Len(output) : LineHasPhraseLower(output[k], phrase)

Min(S) == CHOOSE x \in S : \A y \in S : x <= y

\* re.search(r'(\d+)\s+<word>', line): the positions of a number followed by
\* a token that starts with word
CountMatches(line, word) ==
    { i \in 1..(Len(line) - 1) : IsNum(line[i]) /\ Has(line[i + 1], word) }

\* int(match.group(1)) of the first match; old is kept when nothing matches
CountOr(line, word, old) ==
    IF CountMatches(line, word) = {} THEN old
    ELSE NumVal[line[Min(CountMatches(line, word))]]

(***************************************************************************)
(* JudgeAgent._parse_pytest_output                                         *)
(***************************************************************************)
\* one step of `for line in output.split('\n')`: a line with the separator
\* and 'passed' or 'failed' overwrites the counts it mentions
SummaryLineStep(acc, line) ==
    IF LineHas(line, "=====") /\ (LineHas(line, "passed") \/ LineHas(line, "failed"))
    THEN [passed |-> CountOr(line, "passed", acc.passed),
          failed |-> CountOr(line, "failed", acc.failed),
          errors |-> CountOr(line, "error", acc.errors)]
    ELSE acc

RECURSIVE ScanSummaryLines(_, _, _)
ScanSummaryLines(output, k, acc) ==
    IF k > Len(output) THEN acc
    ELSE ScanSummaryLines(output, k + 1, SummaryLineStep(acc, output[k]))

\* re.search(r'collected\s+(\d+)\s+item', output): the positions of a line
\* where 'collected', a number and 'item...' follow each other
CollectedMatches(line) ==
    { i \in 1..(Len(line) - 2) :
        /\ Has(line[i], "collected")
        /\ IsNum(line[i + 1])
        /\ Has(line[i + 2], "item") }

CollectedLines(output) == { k \in 1..Len(output) : CollectedMatches(output[k]) # {} }

\* int(collected_match.group(1)) of the first match in the output
FirstCollected(output) ==
    LET line == output[Min(CollectedLines(output))]
    IN NumVal[line[Min(CollectedMatches(line)) + 1]]

\* the degenerate case leaving the error count at zero
ZeroCounts_Kept(output) == 0

\* lines 487-497, the degenerate case: nothing parsed
ZeroCounts(output) ==
    IF CollectedLines(output) # {}
    THEN (IF FirstCollected(output) > 0 THEN 1 ELSE 0)
    ELSE 1

_parse_pytest_output(output) ==
    IF OutputHas(output, "ERROR") /\ OutputHasLower(output, "collecting")
    THEN [passed |-> 0, failed |-> 0, errors |-> 1, collection_error |-> TRUE]
    ELSE IF \/ OutputHasPhraseLower(output, <<"no", "tests", "ran">>)
            \/ OutputHasPhraseLower(output, <<"0", "items", "collected">>)
    THEN [passed |-> 0, failed |-> 0, errors |-> 1, collection_error |-> TRUE]
    ELSE LET c == ScanSummaryLines(output, 1, [passed |-> 0, failed |-> 0, errors |-> 0])
         IN [passed |-> c.passed,
             failed |-> c.failed,
             errors |-> IF c.passed = 0 /\ c.failed = 0 /\ c.errors = 0
                        THEN ZeroCounts(output) ELSE c.errors,
             collection_error |-> FALSE]

(***************************************************************************)
(* JudgeAgent._extract_error_logs                                          *)
(***************************************************************************)
\* the capture flag after the line has been looked at
CaptureAfter(capture, line) ==
    IF LineHasPhraseLower(line, <<"short", "test", "summary">>)
    THEN FALSE
    ELSE capture \/ LineHas(line, "FAILURES") \/ LineHas(line, "ERRORS")
                 \/ LineHas(line, "ERROR")

RECURSIVE CapturedLines(_, _, _)
CapturedLines(output, k, capture) ==
    IF k > Len(output) THEN <<>>
    ELSE LET c == CaptureAfter(capture, output[k])
         IN (IF c THEN <<output[k]>> ELSE <<>>) \o CapturedLines(output, k + 1, c)

\* output.split('\n')[-30:]
LastLines(output) ==
    SubSeq(output, IF Len(output) > LogWindow THEN Len(output) - LogWindow + 1 ELSE 1,
           Len(output))

_extract_error_logs(output) ==
    IF CapturedLines(output, 1, FALSE) = <<>> THEN LastLines(output)
    ELSE CapturedLines(output, 1, FALSE)

(***************************************************************************)
(* JudgeAgent._generate_fix_suggestion                                     *)
(***************************************************************************)
KnownSuggestions ==
    { "AssertionError", "TypeError", "ValueError", "AttributeError", "KeyError",
      "IndexError", "ZeroDivisionError", "ImportError", "NameError" }

\* the suggestion made of the detail of the message alone
_generate_fix_suggestion_DetailOnly(test_name, error_type, error_msg) ==
    IF error_msg # <<>> THEN <<"Detail:">> \o error_msg ELSE <<>>

\* the suggestion text, as the sequence of its parts
_generate_fix_suggestion(test_name, error_type, error_msg) ==
    (IF error_type \in KnownSuggestions
     THEN <<"suggestion for", error_type>>
     ELSE <<"Corriger l'erreur", error_type, "dans la fonction testee.">>)
    \o (IF error_msg # <<>> THEN <<"Detail:">> \o error_msg ELSE <<>>)

(***************************************************************************)
(* JudgeAgent._parse_failure_details                                       *)
(***************************************************************************)
SeqHas(content, w) == \E i \in 1..Len(content) : Has(content[i], w)

\* the `if 'KeyError' in failure_content ... elif` chain
DetectErrorType(content) ==
    IF SeqHas(content, "KeyError") THEN "KeyError"
    ELSE IF SeqHas(content, "TypeError") THEN "TypeError"
    ELSE IF SeqHas(content, "ValueError") THEN "ValueError"
    ELSE IF SeqHas(content, "AttributeError") THEN "AttributeError"
    ELSE IF SeqHas(content, "IndexError") THEN "IndexError"
    ELSE "AssertionError"

\* the test code, expected/actual and call details only add parts to the
\* description and the suggestion; their first part is always there
_parse_failure_details(test_name, content) ==
    [severity |-> "HIGH",
     type |-> "BUG",
     test_name |-> test_name,
     error_type |-> DetectErrorType(content),
     description |-> <<"Test", test_name, "a echoue">>,
     suggestion |-> _generate_fix_suggestion(test_name, DetectErrorType(content), <<>>)]

(***************************************************************************)
(* JudgeAgent._analyze_failures_for_fixer                                  *)
(***************************************************************************)
NL == "\n"

\* the output as one stream of tokens, NL between the lines
RECURSIVE Flatten(_, _)
Flatten(output, k) ==
    IF k > Len(output) THEN <<>>
    ELSE output[k] \o (IF k < Len(output) THEN <<NL>> ELSE <<>>) \o Flatten(output, k + 1)

TestNames == { "test_a", "test_b", "test_divide_by_zero" }

\* _{3,}
IsUnderscores(t) == t = "___"

RECURSIVE SkipWhitespace(_, _)
SkipWhitespace(flat, p) ==
    IF p <= Len(flat) /\ flat[p] = NL THEN SkipWhitespace(flat, p + 1) ELSE p

\* r'_{3,}\s*(test_\w+)\s*_{3,}' matched at position p: the position of the
\* closing underscores, 0 when there is no match at p
HeaderEnd(flat, p) ==
    LET q == SkipWhitespace(flat, p + 1)
        r == SkipWhitespace(flat, q + 1)
    IN IF /\ r <= Len(flat)
          /\ IsUnderscores(flat[p])
          /\ flat[q] \in TestNames
          /\ IsUnderscores(flat[r])
       THEN r ELSE 0

\* the headers of the output, left to right, not overlapping
RECURSIVE FindHeaders(_, _)
FindHeaders(flat, p) ==
    IF p > Len(flat) THEN <<>>
    ELSE IF HeaderEnd(flat, p) # 0
    THEN <<[start |-> p, name |-> flat[SkipWhitespace(flat, p + 1)],
            end |-> HeaderEnd(flat, p)]>> \o FindHeaders(flat, HeaderEnd(flat, p) + 1)
    ELSE FindHeaders(flat, p + 1)

\* re.split: the pairs (test_name, failure_content)
FailureSections(output) ==
    LET flat == Flatten(output, 1)
        hs == FindHeaders(flat, 1)
    IN [i \in 1..Len(hs) |->
          [test_name |-> hs[i].name,
           content |-> SubSeq(flat, hs[i].end + 1,
                              IF i < Len(hs) THEN hs[i + 1].start - 1 ELSE Len(flat))]]

\* the loop over the sections stopping after the first one
SectionInstructions_FirstOnly(output) ==
    LET ss == FailureSections(output)
    IN IF ss = <<>> THEN <<>>
       ELSE <<_parse_failure_details(ss[1].test_name, ss[1].content)>>

\* lines 571-579: one _parse_failure_details result per section
SectionInstructions(output) ==
    LET ss == FailureSections(output)
    IN [i \in 1..Len(ss) |-> _parse_failure_details(ss[i].test_name, ss[i].content)]

\* tokens on which \w+ does not match
NonWords == { ":", ",", "-", "=====", "==", "'x'", "t.py::", NL }

\* [\w./]+::
Locators == { "t.py::" }

\* summary_pattern matched at position i of a line
SummaryMatchAt(line, i) ==
    /\ i + 4 <= Len(line)
    /\ line[i] = "FAILED"
    /\ line[i + 1] \in Locators
    /\ line[i + 2] \in TestNames
    /\ line[i + 3] = "-"
    /\ line[i + 4] \notin NonWords

SummaryMatches(line) == { i \in 1..Len(line) : SummaryMatchAt(line, i) }

\* (test_name, error_type, error_msg) of the line's match
SummaryFailure(line) ==
    LET i == Min(SummaryMatches(line))
        rest == SubSeq(line, i + 5, Len(line))
    IN [test_name |-> line[i + 2],
        error_type |-> line[i + 4],
        error_msg |-> IF rest # <<>> /\ rest[1] = ":" THEN Tail(rest) ELSE rest]

\* re.findall(summary_pattern, output)
RECURSIVE SummaryFailures(_, _)
SummaryFailures(output, k) ==
    IF k > Len(output) THEN <<>>
    ELSE (IF SummaryMatches(output[k]) # {} THEN <<SummaryFailure(output[k])>> ELSE <<>>)
         \o SummaryFailures(output, k + 1)

SummaryInstruction(f) ==
    [severity |-> "HIGH",
     type |-> "BUG",
     test_name |-> f.test_name,
     error_type |-> f.error_type,
     description |-> <<"Test", f.test_name, "a echoue avec", f.error_type>>,
     suggestion |-> _generate_fix_suggestion(f.test_name, f.error_type, f.error_msg)]

\* the summary failures whose test is not in existing_tests
RECURSIVE MissedFailures(_, _, _)
MissedFailures(fs, k, existing) ==
    IF k > Len(fs) THEN <<>>
    ELSE (IF fs[k].test_name \notin existing THEN <<SummaryInstruction(fs[k])>> ELSE <<>>)
         \o MissedFailures(fs, k + 1, existing)

GenericInstruction(output) ==
    [severity |-> "HIGH",
     type |-> "BUG",
     test_name |-> "unknown",
     error_type |-> "TestFailure",
     description |-> <<"Des tests ont echoue. Voir les details complets ci-dessous.">>,
     suggestion |-> <<"Analyser les erreurs et corriger le code:">>]

\* the generic instruction never emitted
GenericWanted_Never(found, output) == FALSE

\* `if not fix_instructions and ('FAILED' in output or 'ERROR' in output)`
GenericWanted(found, output) ==
    found = <<>> /\ (OutputHas(output, "FAILED") \/ OutputHas(output, "ERROR"))

_analyze_failures_for_fixer(output) ==
    LET sections == SectionInstructions(output)
        existing == { sections[i].test_name : i \in 1..Len(sections) }
        found == sections \o MissedFailures(SummaryFailures(output, 1), 1, existing)
    IN IF GenericWanted(found, output) THEN <<GenericInstruction(output)>> ELSE found

(***************************************************************************)
(* JudgeAgent.run_tests                                                    *)
(***************************************************************************)
\* the success flag read from the failed count alone
RunSuccess_FailedOnly(parsed) == parsed.failed = 0

\* line 142: success = parsed['failed'] == 0 and parsed['errors'] == 0
RunSuccess(parsed) == parsed.failed = 0 /\ parsed.errors = 0

\* error_logs and fix_instructions are extracted `if not success`
ErrorLogsOf(success, output) == IF ~success THEN _extract_error_logs(output) ELSE <<>>

\* the analysis run whatever the verdict
FixInstructionsOf_Unconditional(success, output) == _analyze_failures_for_fixer(output)

FixInstructionsOf(success, output) ==
    IF ~success THEN _analyze_failures_for_fixer(output) ELSE <<>>

TimeoutMsg == <<<<"Pytest timeout (>60s)">>>>

ExceptionMsg == <<<<"str(e)">>>>

\* the except branches returning no instruction
FailedRun_NoInstruction(msg, description, suggestion) ==
    [success |-> FALSE, passed |-> 0, failed |-> 0, errors |-> 1,
     output |-> msg, error_logs |-> msg, fix_instructions |-> <<>>]

\* the result of the two except branches
FailedRun(msg, description, suggestion) ==
    [success |-> FALSE, passed |-> 0, failed |-> 0, errors |-> 1,
     output |-> msg, error_logs |-> msg,
     fix_instructions |->
        <<[severity |-> "HIGH", type |-> "BUG", test_name |-> None,
           error_type |-> None, description |-> description,
           suggestion |-> suggestion]>>]

\* run is what subprocess.run did: it completed with an output, it timed
\* out, or it raised
run_tests(run) ==
    IF run.kind = "timeout"
    THEN FailedRun(TimeoutMsg, <<"Les tests ont timeout (>60s).">>,
                   <<"Verifier les boucles while, les appels recursifs, les I/O.">>)
    ELSE IF run.kind = "exception"
    THEN FailedRun(ExceptionMsg, <<"Erreur d'execution des tests:", "str(e)">>,
                   <<"Verifier que le code source est syntaxiquement correct.">>)
    ELSE LET parsed == _parse_pytest_output(run.output)
             success == RunSuccess(parsed)
         IN [success |-> success,
             passed |-> parsed.passed,
             failed |-> parsed.failed,
             errors |-> parsed.errors,
             output |-> run.output,
             error_logs |-> ErrorLogsOf(success, run.output),
             fix_instructions |-> FixInstructionsOf(success, run.output)]

(***************************************************************************)
(* JudgeAgent.evaluate_with_tolerance                                      *)
(***************************************************************************)
\* the threshold taken as a strict bound
RateAtLeastThreshold_Strict(passed, total) == passed * ThresholdDen > ThresholdNum * total

\* pass_rate >= PASS_RATE_THRESHOLD for pass_rate = passed / total
RateAtLeastThreshold(passed, total) == passed * ThresholdDen >= ThresholdNum * total

\* the minimum-sample floor enforced as a gate
ToleranceDecision_FloorGates(passed, failed, total) ==
    [acceptable |-> total >= MIN_TESTS_FOR_TOLERANCE /\ RateAtLeastThreshold(passed, total),
     pass_rate |-> [num |-> passed, den |-> total],
     passed |-> passed, failed |-> failed, reason |-> "gated"]

\* the verdict for total > 0; pass_rate is the fraction num / den
ToleranceDecision(passed, failed, total) ==
    IF total >= MIN_TESTS_FOR_TOLERANCE /\ RateAtLeastThreshold(passed, total)
    THEN [acceptable |-> TRUE, pass_rate |-> [num |-> passed, den |-> total],
          passed |-> passed, failed |-> failed, reason |-> "acceptable (tests passes)"]
    ELSE IF total < MIN_TESTS_FOR_TOLERANCE /\ RateAtLeastThreshold(passed, total)
    THEN [acceptable |-> TRUE, pass_rate |-> [num |-> passed, den |-> total],
          passed |-> passed, failed |-> failed, reason |-> "acceptable (tests)"]
    ELSE [acceptable |-> FALSE, pass_rate |-> [num |-> passed, den |-> total],
          passed |-> passed, failed |-> failed, reason |-> "insuffisant"]

\* test_results is a sequence: <<>> for None, <<r>> for the dict r
evaluate_with_tolerance(test_results) ==
    IF test_results = <<>>
    THEN [acceptable |-> FALSE, pass_rate |-> [num |-> 0, den |-> 1],
          passed |-> 0, failed |-> 0, reason |-> "Aucun resultat de test disponible"]
    ELSE LET passed == test_results[1].passed
             failed == test_results[1].failed
             errors == test_results[1].errors
             total == passed + failed + errors
         IN IF total = 0
            THEN [acceptable |-> FALSE, pass_rate |-> [num |-> 0, den |-> 1],
                  passed |-> 0, failed |-> 0, reason |-> "Aucun test execute"]
            ELSE ToleranceDecision(passed, failed, total)

(***************************************************************************)
(* JudgeAgent.judge                                                        *)
(***************************************************************************)
GenerationFailed ==
    [success |-> FALSE,
     verdict |-> "FAIL",
     test_results |-> <<>>,
     error_logs |-> <<<<"Test generation failed:", "error">>>>,
     fix_instructions |->
        <<[severity |-> "HIGH", type |-> "BUG", test_name |-> None,
           error_type |-> None,
           description |-> <<"Echec de generation des tests:", "error">>,
           suggestion |-> <<"Verifier que le code source est valide.">>]>>]

\* the tests generated on every judge call
MustGenerate_Always(regenerate_tests, exists) == TRUE

\* `if regenerate_tests or not os.path.exists(test_file_path)`
MustGenerate(regenerate_tests, exists) == regenerate_tests \/ ~exists

\* gen_ok: generate_tests succeeded; test_results: what run_tests returns
judge(regenerate_tests, exists, gen_ok, test_results) ==
    IF MustGenerate(regenerate_tests, exists) /\ ~gen_ok
    THEN GenerationFailed
    ELSE    [success |-> test_results.success,
             verdict |-> IF test_results.success THEN "PASS" ELSE "FAIL",
             test_results |-> <<test_results>>,
             error_logs |-> test_results.error_logs,
             fix_instructions |-> test_results.fix_instructions]

\* the test file exists after the call
TestFileAfter(regenerate_tests, exists, gen_ok) ==
    IF MustGenerate(regenerate_tests, exists) THEN (exists \/ gen_ok) ELSE exists

(***************************************************************************)
(* FixerAgent.apply_fixes                                                  *)
(***************************************************************************)
\* The target file is the sequence of its lines (content.splitlines()), a line
\* the sequence of its tokens; "    " is the indentation of a nested line.
DefF == <<"def", "f", "(", ")", ":">>

AsyncDefG == <<"async", "def", "g", "(", ")", ":">>

ClassK == <<"class", "K", ":">>

Body == <<"    ", "return", "1">>

\* the tokens \w+ matches
Identifiers == { "f", "g", "K" }

\* re.findall(r'^def\s+(\w+)\s*\(', content, re.MULTILINE)
DefNames(content) ==
    { content[k][2] :
        k \in { i \in 1..Len(content) :
                  /\ Len(content[i]) >= 3
                  /\ content[i][1] = "def"
                  /\ content[i][2] \in Identifiers
                  /\ content[i][3] = "(" } }

\* re.findall(r'^class\s+(\w+)\s*[:\(]', content, re.MULTILINE)
ClassNames(content) ==
    { content[k][2] :
        k \in { i \in 1..Len(content) :
                  /\ Len(content[i]) >= 3
                  /\ content[i][1] = "class"
                  /\ content[i][2] \in Identifiers
                  /\ content[i][3] \in { ":", "(" } } }

\* the size check rejecting a candidate of exactly half the lines too
TooShort_AtMostHalf(fixed_code, original) == 2 * Len(fixed_code) <= Len(original)

\* line 53: fixed_line_count < original_line_count * 0.5
TooShort(fixed_code, original) == 2 * Len(fixed_code) < Len(original)

\* lines 57-63: missing_functions or missing_classes
NamesMissing(fixed_code, original) ==
    \/ DefNames(original) \ DefNames(fixed_code) # {}
    \/ ClassNames(original) \ ClassNames(fixed_code) # {}

\* lines 48-65: one of the validations raises ValueError
Rejected(fixed_code, original) ==
    \/ fixed_code = <<>>
    \/ TooShort(fixed_code, original)
    \/ NamesMissing(fixed_code, original)

\* the fixer working on an empty issue list as on any other
NoIssues_Never(audit_results) == FALSE

\* line 23: `if not audit_results.get("issues")`
NoIssues(audit_results) ==
    "issues" \notin DOMAIN audit_results \/ audit_results.issues = <<>>

\* the candidate written to the file before it is validated
apply_fixes_WritesFirst(audit_results, readable, content, answer) ==
    IF NoIssues(audit_results)
    THEN [raised |-> FALSE, returned |-> "1", written |-> FALSE, content |-> content,
          read |-> FALSE, asked |-> FALSE]
    ELSE IF ~readable
    THEN [raised |-> TRUE, returned |-> None, written |-> FALSE, content |-> content,
          read |-> TRUE, asked |-> FALSE]
    ELSE IF answer.kind = "raises"
    THEN [raised |-> FALSE, returned |-> "0", written |-> FALSE, content |-> content,
          read |-> TRUE, asked |-> TRUE]
    ELSE IF Rejected(answer.code, content)
    THEN [raised |-> FALSE, returned |-> "0", written |-> TRUE, content |-> answer.code,
          read |-> TRUE, asked |-> TRUE]
    ELSE [raised |-> FALSE, returned |-> "fixed_code", written |-> TRUE,
          content |-> answer.code, read |-> TRUE, asked |-> TRUE]

\* readable: FileOperations.read_file returns; content: the file on disk;
\* answer: the LLM call raises, or the code _extract_code takes out of its
\* response.  The call raises only from read_file at line 27: everything
\* after it is inside `try ... except Exception`, which returns "0".
\* In the result, content is the file on disk after the call, read tells
\* that read_file was called and asked that the LLM was.
apply_fixes(audit_results, readable, content, answer) ==
    IF NoIssues(audit_results)
    THEN [raised |-> FALSE, returned |-> "1", written |-> FALSE, content |-> content,
          read |-> FALSE, asked |-> FALSE]
    ELSE IF ~readable
    THEN [raised |-> TRUE, returned |-> None, written |-> FALSE, content |-> content,
          read |-> TRUE, asked |-> FALSE]
    ELSE IF answer.kind = "raises"
    THEN [raised |-> FALSE, returned |-> "0", written |-> FALSE, content |-> content,
          read |-> TRUE, asked |-> TRUE]
    ELSE IF Rejected(answer.code, content)
    THEN [raised |-> FALSE, returned |-> "0", written |-> FALSE, content |-> content,
          read |-> TRUE, asked |-> TRUE]
    ELSE [raised |-> FALSE, returned |-> "fixed_code", written |-> TRUE,
          content |-> answer.code, read |-> TRUE, asked |-> TRUE]

\* the codes the fixer's LLM answers with, the empty one included
Codes ==
    { <<>>,
      <<DefF>>,
      <<DefF, Body>>,
      <<DefF, Body, ClassK, Body>>,
      <<AsyncDefG, Body, DefF, Body>> }

Answers == { [kind |-> "raises"] } \cup { [kind |-> "code", code |-> c] : c \in Codes }

\* the target files a mission finds
Sources == { <<DefF, Body, ClassK, Body>>, <<AsyncDefG, Body, DefF, Body>> }

(***************************************************************************)
(* The catalogue of pytest output lines and the raw outputs built from it. *)
(***************************************************************************)
Lines ==
    { <<>>,
      <<"=====", "2", "passed", "=====">>,
      <<"=====", "1", "failed", ",", "9", "passed", "=====">>,
      <<"=====", "1", "passed", ",", "1", "error", "=====">>,
      <<"=====", "1", "skipped", "=====">>,
      <<"=====", "no", "tests", "ran", "=====">>,
      <<"collected", "0", "items">>,
      <<"collected", "2", "items">>,
      <<"ERROR", "collecting", "test_module.py">>,
      <<"ERROR", "root", ":", "boom">>,
      <<"___", "test_a", "___">>,
      <<"___", "test_b", "___">>,
      <<"___", "test_divide_by_zero", "___">>,
      <<"E", "KeyError", ":", "'x'">>,
      <<"E", "ZeroDivisionError", ":", "division", "by", "zero">>,
      <<"=====", "9", "passed", ",", "1", "failed", "=====">>,
      <<"FAILED", "t.py::", "test_a", "-", "KeyError", ":", "'x'">> }

\* output.split('\n') is never empty: at least one (possibly empty) line
Outputs == UNION { [1..n -> Lines] : n \in 1..MaxLines }

\* what subprocess.run can do in run_tests
Runs ==
    { [kind |-> "completed", output |-> o] : o \in Outputs }
    \cup { [kind |-> "timeout"], [kind |-> "exception"] }

\* the test runs a judge call of the repair loop draws from
LoopRuns ==
    { [kind |-> "completed", output |-> << <<"=====", "2", "passed", "=====">> >>],
      [kind |-> "completed",
       output |-> << <<"___", "test_a", "___">>, <<"E", "KeyError", ":", "'x'">>,
                     <<"=====", "1", "failed", ",", "9", "passed", "=====">> >>],
      [kind |-> "completed", output |-> << <<"=====", "no", "tests", "ran", "=====">> >>],
      [kind |-> "timeout"],
      [kind |-> "exception"] }

\* run_tests on each of them
LoopTestResults == { run_tests(run) : run \in LoopRuns }

(***************************************************************************)
(* State.                                                                  *)
(***************************************************************************)
VARIABLES
    pc,               \* where run_swarm / process_file stands
    python_files,     \* run_swarm: the list of files found
    file_idx,         \* run_swarm: position of the for loop in python_files
    results,          \* run_swarm: the tally, or the early-return dict
    calls,            \* the files process_file was called on, in order
    audit_result,     \* process_file: the issues of the audit
    iteration,        \* process_file: the loop counter
    judge_result,     \* process_file: the last judged result
    file_result,      \* process_file: the returned record
    test_file_exists, \* the generated test file is on disk
    fix_calls,        \* apply_fixes calls made for the current file
    judge_calls,      \* judge calls made for the current file
    loop_fix_calls,   \* apply_fixes calls made inside the loop
    loop_judge_calls, \* judge calls made inside the loop
    fix_raises,       \* in-loop apply_fixes calls that raised
    late_calls,       \* fix or judge calls made after a successful judge
    file_content,     \* the target file on disk, as its lines
    original_content, \* the target file when process_file was called
    audit_calls,      \* analyze_file calls made for the current file
    audit_raised,     \* the audit of the current file raised
    gen_calls,        \* generate_tests calls made for the current file
    loop_gen_calls,   \* generate_tests calls made inside the loop
    run_calls,        \* run_tests calls made for the current file
    initial_fix,      \* what the initial apply_fixes call came to
    fix_request,      \* process_file: the issues of the last in-loop fix
    arg,              \* the argument of the function under study
    ret               \* its result, <<>> before the call

vars ==
    << pc, python_files, file_idx, results, calls, audit_result, iteration,
       judge_result, file_result, test_file_exists, fix_calls, judge_calls,
       loop_fix_calls, loop_judge_calls, fix_raises, late_calls, file_content,
       original_content, audit_calls, audit_raised, gen_calls, loop_gen_calls,
       run_calls, initial_fix, fix_request, arg, ret >>

\* judge_result = None
NoJudge ==
    [success |-> FALSE, verdict |-> None, test_results |-> <<>>,
     error_logs |-> <<>>, fix_instructions |-> <<>>]

NoRecord == [file |-> 0]

FileLocalsInit ==
    /\ audit_result = <<>>
    /\ iteration = 0
    /\ judge_result = NoJudge
    /\ file_result = NoRecord
    /\ test_file_exists = FALSE
    /\ fix_calls = 0
    /\ judge_calls = 0
    /\ loop_fix_calls = 0
    /\ loop_judge_calls = 0
    /\ fix_raises = 0
    /\ late_calls = 0
    /\ file_content = <<>>
    /\ original_content = <<>>
    /\ audit_calls = 0
    /\ audit_raised = FALSE
    /\ gen_calls = 0
    /\ loop_gen_calls = 0
    /\ run_calls = 0
    /\ initial_fix = None
    /\ fix_request = <<>>

Init ==
    /\ pc = "swarm_start"
    /\ python_files = <<>>
    /\ file_idx = 1
    /\ results = [success |-> FALSE]
    /\ calls = <<>>
    /\ FileLocalsInit
    /\ arg = <<>>
    /\ ret = <<>>

(***************************************************************************)
(* run_swarm                                                               *)
(***************************************************************************)
\* lines 51-57: a constructor of the three agents raises
AgentsInitFail ==
    /\ pc = "swarm_start"
    /\ results' = [success |-> FALSE, error |-> "str(e)"]
    /\ pc' = "swarm_returned"
    /\ UNCHANGED << python_files, file_idx, calls, audit_result, iteration,
                    judge_result, file_result, test_file_exists, fix_calls,
                    judge_calls, loop_fix_calls, loop_judge_calls, fix_raises,
                    late_calls, arg, ret,
                    file_content, original_content, audit_calls, audit_raised,
                    gen_calls, loop_gen_calls, run_calls, initial_fix, fix_request >>

\* lines 60-64: get_python_files finds nothing
NoPythonFiles ==
    /\ pc = "swarm_start"
    /\ results' = [success |-> FALSE, error |-> "No Python files found"]
    /\ pc' = "swarm_returned"
    /\ UNCHANGED << python_files, file_idx, calls, audit_result, iteration,
                    judge_result, file_result, test_file_exists, fix_calls,
                    judge_calls, loop_fix_calls, loop_judge_calls, fix_raises,
                    late_calls, arg, ret,
                    file_content, original_content, audit_calls, audit_raised,
                    gen_calls, loop_gen_calls, run_calls, initial_fix, fix_request >>

\* lines 60-74: n files are found and the tally is created
BeginMission ==
    /\ pc = "swarm_start"
    /\ \E n \in 1..MaxFiles : python_files' = [i \in 1..n |-> i]
    /\ results' = [files_processed |-> 0, files_success |-> 0,
                   files_failed |-> 0, details |-> <<>>]
    /\ file_idx' = 1
    /\ pc' = "next_file"
    /\ UNCHANGED << calls, audit_result, iteration, judge_result, file_result,
                    test_file_exists, fix_calls, judge_calls, loop_fix_calls,
                    loop_judge_calls, fix_raises, late_calls, arg, ret,
                    file_content, original_content, audit_calls, audit_raised,
                    gen_calls, loop_gen_calls, run_calls, initial_fix, fix_request >>

\* lines 79-85: the tally after process_file has returned file_result
Tally(res, record) ==
    [files_processed |-> res.files_processed + 1,
     files_success |-> res.files_success + (IF record.success THEN 1 ELSE 0),
     files_failed |-> res.files_failed + (IF record.success THEN 0 ELSE 1),
     details |-> Append(res.details, record)]

TallyFile ==
    /\ pc = "file_returned"
    /\ results' = Tally(results, file_result)
    /\ file_idx' = file_idx + 1
    /\ pc' = "next_file"
    /\ UNCHANGED << python_files, calls, audit_result, iteration, judge_result,
                    file_result, test_file_exists, fix_calls, judge_calls,
                    loop_fix_calls, loop_judge_calls, fix_raises, late_calls,
                    arg, ret,
                    file_content, original_content, audit_calls, audit_raised,
                    gen_calls, loop_gen_calls, run_calls, initial_fix, fix_request >>

\* lines 87-110: the for loop is over
MissionComplete ==
    /\ pc = "next_file"
    /\ file_idx > Len(python_files)
    /\ pc' = "swarm_returned"
    /\ UNCHANGED << python_files, file_idx, results, calls, audit_result,
                    iteration, judge_result, file_result, test_file_exists,
                    fix_calls, judge_calls, loop_fix_calls, loop_judge_calls,
                    fix_raises, late_calls, arg, ret,
                    file_content, original_content, audit_calls, audit_raised,
                    gen_calls, loop_gen_calls, run_calls, initial_fix, fix_request >>

(***************************************************************************)
(* process_file                                                            *)
(***************************************************************************)
AuditIssues ==
    <<[severity |-> "HIGH", type |-> "BUG", line |-> 15,
       description |-> <<"Division par zero possible">>,
       suggestion |-> <<"Ajouter une verification">>]>>

\* lines 78, 119-125: run_swarm calls process_file on the next file; a test
\* file left by an earlier run may be there
ProcessFileStart ==
    /\ pc = "next_file"
    /\ file_idx <= Len(python_files)
    /\ calls' = Append(calls, python_files[file_idx])
    /\ audit_result' = <<>>
    /\ iteration' = 0
    /\ judge_result' = NoJudge
    /\ file_result' = NoRecord
    /\ test_file_exists' \in BOOLEAN
    /\ fix_calls' = 0
    /\ judge_calls' = 0
    /\ loop_fix_calls' = 0
    /\ loop_judge_calls' = 0
    /\ fix_raises' = 0
    /\ late_calls' = 0
    /\ file_content' \in Sources
    /\ original_content' = file_content'
    /\ audit_calls' = 0
    /\ audit_raised' = FALSE
    /\ gen_calls' = 0
    /\ loop_gen_calls' = 0
    /\ run_calls' = 0
    /\ initial_fix' = None
    /\ fix_request' = <<>>
    /\ pc' = "audit"
    /\ UNCHANGED << python_files, file_idx, results, arg, ret >>

\* the except branch of the audit falling through to the initial fix
AfterAuditRaises_FallsThrough == "initial_fix"

\* line 139: the except branch of the audit returns from process_file
AfterAuditRaises == "file_returned"

\* lines 134-139, the except branch
AuditFails ==
    /\ pc = "audit"
    /\ audit_calls' = audit_calls + 1
    /\ audit_raised' = TRUE
    /\ file_result' = [file |-> python_files[file_idx], success |-> FALSE,
                       error |-> "Audit failed"]
    /\ pc' = AfterAuditRaises
    /\ UNCHANGED << python_files, file_idx, results, calls, audit_result,
                    iteration, judge_result, test_file_exists, fix_calls,
                    judge_calls, loop_fix_calls, loop_judge_calls, fix_raises,
                    late_calls, file_content, original_content, gen_calls,
                    loop_gen_calls, run_calls, initial_fix, fix_request,
                    arg, ret >>

\* lines 134-136: the audit returns its issues, possibly none
AuditReturns ==
    /\ pc = "audit"
    /\ audit_calls' = audit_calls + 1
    /\ audit_result' \in { <<>>, AuditIssues }
    /\ pc' = "initial_fix"
    /\ UNCHANGED << python_files, file_idx, results, calls, iteration,
                    judge_result, file_result, test_file_exists, fix_calls,
                    judge_calls, loop_fix_calls, loop_judge_calls, fix_raises,
                    late_calls, file_content, original_content, audit_raised,
                    gen_calls, loop_gen_calls, run_calls, initial_fix,
                    fix_request, arg, ret >>

\* lines 148-152
InitialFix ==
    /\ pc = "initial_fix"
    /\ \E readable \in BOOLEAN, answer \in Answers :
         LET fix == apply_fixes([issues |-> audit_result], readable, file_content, answer)
         IN /\ IF fix.raised
               THEN /\ file_result' = [file |-> python_files[file_idx],
                                       success |-> FALSE, error |-> "Fix failed"]
                    /\ pc' = "file_returned"
               ELSE /\ file_result' = file_result
                    /\ pc' = "first_judge"
            /\ file_content' = fix.content
            /\ initial_fix' = IF fix.raised THEN "raised" ELSE fix.returned
    /\ fix_calls' = fix_calls + 1
    /\ UNCHANGED << python_files, file_idx, results, calls, audit_result,
                    iteration, judge_result, test_file_exists, judge_calls,
                    loop_fix_calls, loop_judge_calls, fix_raises, late_calls,
                    original_content, audit_calls, audit_raised, gen_calls,
                    loop_gen_calls, run_calls, fix_request, arg, ret >>

\* generate_tests calls of one judge call (line 288)
Generations(regenerate_tests, exists) ==
    IF MustGenerate(regenerate_tests, exists) THEN 1 ELSE 0

\* the tests run on every judge call
Executions_Always(regenerate_tests, exists, gen_ok) == 1

\* run_tests calls of one judge call (line 305, after the return of line 290)
Executions(regenerate_tests, exists, gen_ok) ==
    IF MustGenerate(regenerate_tests, exists) /\ ~gen_ok THEN 0 ELSE 1

\* the test code that generate_tests writes
TestCode == << <<"def", "test_f", "(", ")", ":">>, Body >>

\* a path is the sequence of the parts of its base name
SourcePath(file_path) == <<file_path>>

\* the test code written over the file under test
TestFilePath_OverSource(file_path) == SourcePath(file_path)

\* judge.py lines 63-65 and 283-285: test_file_name = f"test_{base_name}"
TestFilePath(file_path) == <<"test_">> \o SourcePath(file_path)

\* the content of the target file after a judge call: the only write of
\* judge, generate_tests and run_tests is write_file(test_file_path, test_code)
ContentAfterJudge(file_path, content, regenerate_tests, exists, gen_ok) ==
    IF /\ MustGenerate(regenerate_tests, exists)
       /\ gen_ok
       /\ TestFilePath(file_path) = SourcePath(file_path)
    THEN TestCode
    ELSE content

\* line 165: judge_result = judge.judge(file_path, regenerate_tests=True)
FirstJudge ==
    /\ pc = "first_judge"
    /\ \E gen_ok \in BOOLEAN, test_results \in LoopTestResults :
         /\ judge_result' = judge(TRUE, test_file_exists, gen_ok, test_results)
         /\ test_file_exists' = TestFileAfter(TRUE, test_file_exists, gen_ok)
         /\ run_calls' = run_calls + Executions(TRUE, test_file_exists, gen_ok)
         /\ file_content' = ContentAfterJudge(python_files[file_idx], file_content,
                                              TRUE, test_file_exists, gen_ok)
    /\ gen_calls' = gen_calls + Generations(TRUE, test_file_exists)
    /\ judge_calls' = judge_calls + 1
    /\ pc' = "loop_test"
    /\ UNCHANGED << python_files, file_idx, results, calls, audit_result,
                    iteration, file_result, fix_calls, loop_fix_calls,
                    loop_judge_calls, fix_raises, late_calls,
                    original_content, audit_calls, audit_raised, loop_gen_calls,
                    initial_fix, fix_request, arg, ret >>

\* the loop test without the success test
LoopCondition_BudgetOnly(jr, it) == it < MAX_ITERATIONS

\* the loop left one iteration before the budget is spent
LoopCondition_StopsEarly(jr, it) == ~jr.success /\ it < MAX_ITERATIONS - 1

\* line 168: while not judge_result["success"] and iteration < MAX_ITERATIONS
LoopCondition(jr, it) == ~jr.success /\ it < MAX_ITERATIONS

\* the judge's instructions handed over as they are
FixRequest_NoFallback(jr) == jr.fix_instructions

\* lines 176-192: the issues handed to the fixer
FixRequest(jr) ==
    IF jr.fix_instructions # <<>> THEN jr.fix_instructions
    ELSE <<[severity |-> "HIGH", type |-> "BUG", line |-> 0,
            description |-> <<"Test failures detected:">> \o jr.error_logs,
            suggestion |-> <<"Analyser les erreurs de tests et corriger le code source.">>]>>

\* line 173 subscripts judge_result['test_results'], which raises TypeError
\* when it is None; nothing in process_file or run_swarm catches it
IterationHeaderRaises(jr) == jr.test_results = <<>>

\* lines 168-173: the loop is entered and the iteration header is printed
LoopEnter ==
    /\ pc = "loop_test"
    /\ LoopCondition(judge_result, iteration)
    /\ iteration' = iteration + 1
    /\ pc' = IF IterationHeaderRaises(judge_result) THEN "raised" ELSE "loop_fix"
    /\ UNCHANGED << python_files, file_idx, results, calls, audit_result,
                    judge_result, file_result, test_file_exists, fix_calls,
                    judge_calls, loop_fix_calls, loop_judge_calls, fix_raises,
                    late_calls, arg, ret,
                    file_content, original_content, audit_calls, audit_raised,
                    gen_calls, loop_gen_calls, run_calls, initial_fix, fix_request >>

Late(jr) == IF jr.success THEN 1 ELSE 0

\* the judge re-run whether or not the fix raised
NextAfterFix_NoContinue(raised) == "loop_judge"

\* lines 197-201: `continue` when apply_fixes raises
NextAfterFix(raised) == IF raised THEN "loop_test" ELSE "loop_judge"

\* lines 176-201: the fix of the iteration
LoopFix ==
    /\ pc = "loop_fix"
    /\ \E readable \in BOOLEAN, answer \in Answers :
         LET fix == apply_fixes([issues |-> FixRequest(judge_result)], readable,
                                file_content, answer)
         IN /\ pc' = NextAfterFix(fix.raised)
            /\ fix_raises' = fix_raises + (IF fix.raised THEN 1 ELSE 0)
            /\ file_content' = fix.content
    /\ fix_request' = FixRequest(judge_result)
    /\ fix_calls' = fix_calls + 1
    /\ loop_fix_calls' = loop_fix_calls + 1
    /\ late_calls' = late_calls + Late(judge_result)
    /\ UNCHANGED << python_files, file_idx, results, calls, audit_result,
                    iteration, judge_result, file_result, test_file_exists,
                    judge_calls, loop_judge_calls, original_content,
                    audit_calls, audit_raised, gen_calls, loop_gen_calls,
                    run_calls, initial_fix, arg, ret >>

\* line 205: judge_result = judge.judge(file_path, regenerate_tests=False)
LoopJudge ==
    /\ pc = "loop_judge"
    /\ \E gen_ok \in BOOLEAN, test_results \in LoopTestResults :
         /\ judge_result' = judge(FALSE, test_file_exists, gen_ok, test_results)
         /\ test_file_exists' = TestFileAfter(FALSE, test_file_exists, gen_ok)
         /\ run_calls' = run_calls + Executions(FALSE, test_file_exists, gen_ok)
         /\ file_content' = ContentAfterJudge(python_files[file_idx], file_content,
                                              FALSE, test_file_exists, gen_ok)
    /\ gen_calls' = gen_calls + Generations(FALSE, test_file_exists)
    /\ loop_gen_calls' = loop_gen_calls + Generations(FALSE, test_file_exists)
    /\ judge_calls' = judge_calls + 1
    /\ loop_judge_calls' = loop_judge_calls + 1
    /\ late_calls' = late_calls + Late(judge_result)
    /\ pc' = "loop_test"
    /\ UNCHANGED << python_files, file_idx, results, calls, audit_result,
                    iteration, file_result, fix_calls, loop_fix_calls,
                    fix_raises, original_content, audit_calls,
                    audit_raised, initial_fix, fix_request, arg, ret >>

\* the tolerance branch taken without reading tolerance_result["acceptable"]
ToleranceApplied_Unchecked(jr) == ~jr.success /\ jr.test_results # <<>>

\* lines 213-219: the tolerance check turns the failure into a success
ToleranceApplied(jr) ==
    /\ ~jr.success
    /\ jr.test_results # <<>>
    /\ evaluate_with_tolerance(jr.test_results).acceptable

\* code_analyzer.py lines 27-107: run_pylint returns a score whatever happens
\* (0.0 when pylint cannot run); the pairs are (initial_score, final_score)
ScorePairs == { <<0, 10>>, <<10, 0>> }

\* a record that is a success only when the score did not go down
FinalRecord_ScoreGated(file, jr, it, initial_score, final_score) ==
    [file |-> file,
     success |-> (jr.success \/ ToleranceApplied(jr)) /\ final_score >= initial_score,
     initial_score |-> initial_score,
     final_score |-> final_score,
     iterations |-> it,
     tests_passed |-> IF jr.test_results # <<>> THEN jr.test_results[1].passed ELSE 0,
     tests_failed |-> IF jr.test_results # <<>> THEN jr.test_results[1].failed ELSE 0,
     tolerance_applied |-> ToleranceApplied(jr)]

\* lines 210-252: the returned record
FinalRecord(file, jr, it, initial_score, final_score) ==
    [file |-> file,
     success |-> jr.success \/ ToleranceApplied(jr),
     initial_score |-> initial_score,
     final_score |-> final_score,
     iterations |-> it,
     tests_passed |-> IF jr.test_results # <<>> THEN jr.test_results[1].passed ELSE 0,
     tests_failed |-> IF jr.test_results # <<>> THEN jr.test_results[1].failed ELSE 0,
     tolerance_applied |-> ToleranceApplied(jr)]

\* lines 168, 210-252: the loop is left and process_file returns; the score
\* of line 124 is read nowhere before line 232, so both scores enter here
LoopExit ==
    /\ pc = "loop_test"
    /\ ~LoopCondition(judge_result, iteration)
    /\ \E scores \in ScorePairs :
         file_result' = FinalRecord(python_files[file_idx], judge_result,
                                    iteration, scores[1], scores[2])
    /\ pc' = "file_returned"
    /\ UNCHANGED << python_files, file_idx, results, calls, audit_result,
                    iteration, judge_result, test_file_exists, fix_calls,
                    judge_calls, loop_fix_calls, loop_judge_calls, fix_raises,
                    late_calls, arg, ret,
                    file_content, original_content, audit_calls, audit_raised,
                    gen_calls, loop_gen_calls, run_calls, initial_fix, fix_request >>

(***************************************************************************)
(* main                                                                    *)
(***************************************************************************)
\* the exit status 0 whatever the tally
ExitStatus_AlwaysZero(res) == 0

\* a result without a files_failed entry taken for a failure
ExitStatus_MissingIsFailure(res) ==
    IF "files_failed" \in DOMAIN res /\ res.files_failed = 0 THEN 0 ELSE 1

\* lines 276-281: results.get("files_failed", 0) == 0 decides the status
ExitStatus(res) ==
    IF "files_failed" \in DOMAIN res /\ res.files_failed # 0 THEN 1 ELSE 0

\* the position of a process that has exited with the status
Exited(status) == IF status = 0 THEN "exit_0" ELSE "exit_1"

\* lines 268-270: the target directory does not exist
TargetDirMissing ==
    /\ pc = "swarm_start"
    /\ pc' = Exited(1)
    /\ UNCHANGED << python_files, file_idx, results, calls, audit_result,
                    iteration, judge_result, file_result, test_file_exists,
                    fix_calls, judge_calls, loop_fix_calls, loop_judge_calls,
                    fix_raises, late_calls, file_content, original_content,
                    audit_calls, audit_raised, gen_calls, loop_gen_calls,
                    run_calls, initial_fix, fix_request, arg, ret >>

\* lines 273-281: run_swarm has returned
MainExit ==
    /\ pc = "swarm_returned"
    /\ pc' = Exited(ExitStatus(results))
    /\ UNCHANGED << python_files, file_idx, results, calls, audit_result,
                    iteration, judge_result, file_result, test_file_exists,
                    fix_calls, judge_calls, loop_fix_calls, loop_judge_calls,
                    fix_raises, late_calls, file_content, original_content,
                    audit_calls, audit_raised, gen_calls, loop_gen_calls,
                    run_calls, initial_fix, fix_request, arg, ret >>

\* the TypeError of process_file is caught nowhere: the interpreter prints
\* the traceback and exits with status 1
UncaughtExit ==
    /\ pc = "raised"
    /\ pc' = Exited(1)
    /\ UNCHANGED << python_files, file_idx, results, calls, audit_result,
                    iteration, judge_result, file_result, test_file_exists,
                    fix_calls, judge_calls, loop_fix_calls, loop_judge_calls,
                    fix_raises, late_calls, file_content, original_content,
                    audit_calls, audit_raised, gen_calls, loop_gen_calls,
                    run_calls, initial_fix, fix_request, arg, ret >>

Next ==
    \/ TargetDirMissing
    \/ MainExit
    \/ UncaughtExit
    \/ AgentsInitFail
    \/ NoPythonFiles
    \/ BeginMission
    \/ ProcessFileStart
    \/ AuditFails
    \/ AuditReturns
    \/ InitialFix
    \/ FirstJudge
    \/ LoopEnter
    \/ LoopFix
    \/ LoopJudge
    \/ LoopExit
    \/ TallyFile
    \/ MissionComplete

Spec == Init /\ [][Next]_vars

(***************************************************************************)
(* The test-result interpreter on its own: run_tests applied to every run  *)
(* of the catalogue.                                                       *)
(***************************************************************************)
Idle ==
    /\ python_files = <<>>
    /\ file_idx = 1
    /\ results = [success |-> FALSE]
    /\ calls = <<>>
    /\ FileLocalsInit
    /\ ret = <<>>

InitInterp ==
    /\ pc = "run_tests"
    /\ arg \in Runs
    /\ Idle

Interpret ==
    /\ pc = "run_tests"
    /\ ret = <<>>
    /\ ret' = <<run_tests(arg)>>
    /\ UNCHANGED << pc, python_files, file_idx, results, calls, audit_result,
                    iteration, judge_result, file_result, test_file_exists,
                    fix_calls, judge_calls, loop_fix_calls, loop_judge_calls,
                    fix_raises, late_calls, arg,
                    file_content, original_content, audit_calls, audit_raised,
                    gen_calls, loop_gen_calls, run_calls, initial_fix, fix_request >>

NextInterp == Interpret

SpecInterp == InitInterp /\ [][NextInterp]_vars

(***************************************************************************)
(* The tolerance evaluator on its own: evaluate_with_tolerance applied to  *)
(* None and to every triple of counts up to MaxCount.                      *)
(***************************************************************************)
CountTriples ==
    { <<[passed |-> p, failed |-> f, errors |-> e]>> :
        p \in 0..MaxCount, f \in 0..MaxCount, e \in 0..MaxCount }

InitTolerance ==
    /\ pc = "evaluate_with_tolerance"
    /\ arg \in CountTriples \cup { <<>> }
    /\ Idle

Evaluate ==
    /\ pc = "evaluate_with_tolerance"
    /\ ret = <<>>
    /\ ret' = <<evaluate_with_tolerance(arg)>>
    /\ UNCHANGED << pc, python_files, file_idx, results, calls, audit_result,
                    iteration, judge_result, file_result, test_file_exists,
                    fix_calls, judge_calls, loop_fix_calls, loop_judge_calls,
                    fix_raises, late_calls, arg,
                    file_content, original_content, audit_calls, audit_raised,
                    gen_calls, loop_gen_calls, run_calls, initial_fix, fix_request >>

NextTolerance == Evaluate

SpecTolerance == InitTolerance /\ [][NextTolerance]_vars

(***************************************************************************)
(* The fixer on its own: apply_fixes applied to every issue list, file and *)
(* LLM answer of the catalogue.                                            *)
(***************************************************************************)
\* the files apply_fixes is called on: the codes and a file of three lines
Contents == Codes \cup { <<DefF, Body, Body>> }

FixCalls ==
    [audit_results : { [issues |-> <<>>], [issues |-> AuditIssues],
                       [file_path |-> "f.py"] },
     readable : BOOLEAN, content : Contents, answer : Answers]

InitFixer ==
    /\ pc = "apply_fixes"
    /\ arg \in FixCalls
    /\ Idle

Fix ==
    /\ pc = "apply_fixes"
    /\ ret = <<>>
    /\ ret' = <<apply_fixes(arg.audit_results, arg.readable, arg.content, arg.answer)>>
    /\ UNCHANGED << pc, python_files, file_idx, results, calls, audit_result,
                    iteration, judge_result, file_result, test_file_exists,
                    fix_calls, judge_calls, loop_fix_calls, loop_judge_calls,
                    fix_raises, late_calls, file_content, original_content,
                    audit_calls, audit_raised, gen_calls, loop_gen_calls,
                    run_calls, initial_fix, fix_request, arg >>

NextFixer == Fix

SpecFixer == InitFixer /\ [][NextFixer]_vars

(***************************************************************************)
(* AuditorAgent.analyze_file and the audit phase of process_file on their  *)
(* own: the audit applied to every state of the file, of pylint and of the *)
(* LLM.                                                                    *)
(***************************************************************************)
\* the `type` of the messages pylint reports
PylintTypes == { "error", "warning", "convention" }

\* pylint_results['messages'], up to two of them
PylintMessages ==
    { <<>> } \cup { <<t>> : t \in PylintTypes }
             \cup { <<t, u>> : t \in PylintTypes, u \in PylintTypes }

\* what the LLM call of the auditor comes to: it raises; its answer has no
\* '{...}'; the text between the braces is not JSON; the JSON object has
\* "issues": null; or the JSON object is result
LlmAnswers ==
    { [kind |-> "raises"], [kind |-> "no_json"], [kind |-> "bad_json"],
      [kind |-> "null_issues"] }
    \cup { [kind |-> "json", result |-> r] :
             r \in { [summary |-> "s"],
                     [summary |-> "s", issues |-> <<>>],
                     [summary |-> "s", issues |-> AuditIssues] } }

\* lines 279-294: _create_error_analysis
ErrorAnalysis(error) ==
    [raised |-> FALSE,
     issues |-> <<[severity |-> "HIGH", type |-> "BUG", line |-> 0,
                   description |-> error,
                   suggestion |-> <<"Verifier que le fichier existe et est lisible">>]>>,
     summary |-> "error"]

\* lines 260-268: one pylint message as an issue
PylintIssue(type) ==
    [severity |-> IF type = "error" THEN "HIGH"
                  ELSE IF type = "warning" THEN "MEDIUM" ELSE "LOW",
     type |-> "QUALITY", line |-> 0,
     description |-> <<"message">>,
     suggestion |-> <<"Voir Pylint:", "symbol">>]

\* lines 238-277: _create_fallback_analysis
FallbackAnalysis(pylint_messages, syntax_valid) ==
    [raised |-> FALSE,
     issues |->
        (IF ~syntax_valid
         THEN <<[severity |-> "HIGH", type |-> "BUG", line |-> 0,
                 description |-> <<"Erreur de syntaxe:", "msg">>,
                 suggestion |-> <<"Corriger la syntaxe Python">>]>>
         ELSE <<>>)
        \o [i \in 1..Len(pylint_messages) |-> PylintIssue(pylint_messages[i])],
     summary |-> "fallback"]

\* lines 217-236: _parse_llm_response raises: no JSON object (ValueError),
\* json.loads fails, or len(result['issues']) on None (TypeError)
ParseRaises(llm) == llm.kind \in { "no_json", "bad_json", "null_issues" }

\* lines 223-234: the parsed object with its defaults
ParsedAnalysis(result) ==
    [raised |-> FALSE,
     issues |-> IF "issues" \in DOMAIN result THEN result.issues ELSE <<>>,
     summary |-> "llm"]

\* an audit that lets its failures out
analyze_file_Propagates(readable, llm, pylint_messages, syntax_valid) ==
    IF ~readable \/ llm.kind = "raises" \/ ParseRaises(llm)
    THEN [raised |-> TRUE, issues |-> <<>>, summary |-> "raised"]
    ELSE ParsedAnalysis(llm.result)

\* lines 41-123
analyze_file(readable, llm, pylint_messages, syntax_valid) ==
    IF ~readable
    THEN ErrorAnalysis(<<"Lecture impossible:", "str(e)">>)
    ELSE IF llm.kind = "raises" \/ ParseRaises(llm)
    THEN FallbackAnalysis(pylint_messages, syntax_valid)
    ELSE ParsedAnalysis(llm.result)

AuditCalls ==
    [readable : BOOLEAN, llm : LlmAnswers, pylint_messages : PylintMessages,
     syntax_valid : BOOLEAN]

InitAudit ==
    /\ pc = "audit"
    /\ arg \in AuditCalls
    /\ Idle

\* main.py lines 134-139 around the call of analyze_file
Audit ==
    /\ pc = "audit"
    /\ ret = <<>>
    /\ LET analysis == analyze_file(arg.readable, arg.llm, arg.pylint_messages,
                                    arg.syntax_valid)
       IN /\ ret' = <<analysis>>
          /\ audit_raised' = analysis.raised
          /\ audit_result' = IF analysis.raised THEN audit_result ELSE analysis.issues
          /\ file_result' = IF analysis.raised
                            THEN [file |-> 0, success |-> FALSE, error |-> "Audit failed"]
                            ELSE file_result
          /\ pc' = IF analysis.raised THEN AfterAuditRaises ELSE "initial_fix"
    /\ audit_calls' = audit_calls + 1
    /\ UNCHANGED << python_files, file_idx, results, calls, iteration,
                    judge_result, test_file_exists, fix_calls, judge_calls,
                    loop_fix_calls, loop_judge_calls, fix_raises, late_calls,
                    file_content, original_content, gen_calls, loop_gen_calls,
                    run_calls, initial_fix, fix_request, arg >>

NextAudit == Audit

SpecAudit == InitAudit /\ [][NextAudit]_vars

(***************************************************************************)
(* Properties.                                                             *)
(***************************************************************************)
\* process_file is over for the current file: it returned or it raised
FileOver == pc \in { "file_returned", "raised" }

\* the returned record is a full record, not an audit-failed / fix-failed one
FullRecord(r) == "iterations" \in DOMAIN r

\* C1: a file whose judged result is never successful and whose in-loop fix
\* calls never raise goes through exactly MAX_ITERATIONS fix/judge cycles
\* after the initial fix and judge, and then returns a tolerated or failed
\* record.
C1_ExactlyMaxIterations ==
    (FileOver /\ judge_calls >= 1 /\ ~judge_result.success /\ fix_raises = 0)
        => /\ pc = "file_returned"
           /\ loop_fix_calls = MAX_ITERATIONS
           /\ loop_judge_calls = MAX_ITERATIONS
           /\ FullRecord(file_result)
           /\ file_result.iterations = MAX_ITERATIONS

\* C2: when run_swarm is over, process_file has been called on every file of
\* the list, whatever happened to the files before.
C2_EveryFileProcessed ==
    (pc \in { "swarm_returned", "raised" } /\ python_files # <<>>)
        => calls = python_files

\* C3: process_file never raises, and a file whose first judge call fails to
\* generate the tests ends with a failed record.
C3_AlwaysReturnsRecord ==
    /\ pc # "raised"
    /\ (FileOver /\ judge_calls = 1 /\ judge_result = GenerationFailed)
          => (pc = "file_returned" /\ ~file_result.success)

\* C4: run_tests never reports success with passed = failed = errors = 0.
C4_NoFalseSuccess ==
    ret # <<>> =>
        ~(/\ ret[1].success
          /\ ret[1].passed = 0
          /\ ret[1].failed = 0
          /\ ret[1].errors = 0)

\* C5: every result of run_tests with success false carries at least one fix
\* instruction.
C5_DiagnosticsNonEmpty ==
    (ret # <<>> /\ ~ret[1].success) => Len(ret[1].fix_instructions) >= 1

\* C6: every result of run_tests with success true has no fix instruction and
\* no error log.
C6_NoDiagnosticsOnSuccess ==
    (ret # <<>> /\ ret[1].success)
        => (ret[1].fix_instructions = <<>> /\ ret[1].error_logs = <<>>)

\* a successful run whose output has a line with ERROR in it, on which the
\* failure analysis would emit an instruction
C6_Witness ==
    /\ ret # <<>>
    /\ ret[1].success
    /\ arg.kind = "completed"
    /\ OutputHas(arg.output, "ERROR")

\* C7: once a judge call returns success the file gets no further fix or
\* judge call, and the record reports the number of loop iterations made so
\* far, success, and no tolerance.
C7_StopsAtFirstSuccess ==
    /\ late_calls = 0
    /\ (pc = "file_returned" /\ judge_result.success)
          => /\ file_result.iterations = loop_fix_calls
             /\ file_result.iterations <= MAX_ITERATIONS
             /\ file_result.success
             /\ ~file_result.tolerance_applied

\* the file is fixed on iteration 3 of 10
C7_Witness ==
    /\ pc = "file_returned"
    /\ judge_result.success
    /\ file_result.iterations = 3
    /\ loop_judge_calls >= 1

\* C8: every loop iteration makes exactly one fix call and, exactly when that
\* call did not raise, one judge call after it; there are at most
\* MAX_ITERATIONS iterations, MAX_ITERATIONS + 1 fix calls and
\* MAX_ITERATIONS + 1 judge calls per file.
C8_OneFixOneJudgePerIteration ==
    /\ iteration <= MAX_ITERATIONS
    /\ fix_calls <= MAX_ITERATIONS + 1
    /\ judge_calls <= MAX_ITERATIONS + 1
    /\ (pc \in { "loop_test", "file_returned", "raised" })
          => /\ loop_fix_calls = iteration
             /\ loop_judge_calls = iteration - fix_raises
    /\ pc = "loop_judge"
          => /\ loop_fix_calls = iteration
             /\ loop_judge_calls = iteration - 1 - fix_raises

\* the counts of a judged result pass the tolerance threshold
CountsAcceptable(test_results) ==
    /\ test_results # <<>>
    /\ LET t == test_results[1]
           total == t.passed + t.failed + t.errors
       IN total > 0 /\ t.passed * ThresholdDen >= ThresholdNum * total

SuccessCount(details) ==
    Cardinality({ i \in 1..Len(details) : details[i].success })

\* C9: when the loop ends with a judged result that is not successful, the
\* record's success and tolerance_applied are both the tolerance verdict on
\* the counts of that result, and the mission counts as successes exactly the
\* files whose record has success true.
C9_ToleranceOnExhaustion ==
    /\ (pc = "file_returned" /\ FullRecord(file_result) /\ ~judge_result.success)
          => /\ iteration = MAX_ITERATIONS
             /\ file_result.success = CountsAcceptable(judge_result.test_results)
             /\ file_result.tolerance_applied = CountsAcceptable(judge_result.test_results)
    /\ "details" \in DOMAIN results
          => results.files_success = SuccessCount(results.details)

\* a tolerated file has been counted as a success by the mission
C9_Witness ==
    /\ pc = "swarm_returned"
    /\ "details" \in DOMAIN results
    /\ \E i \in 1..Len(results.details) :
          /\ FullRecord(results.details[i])
          /\ results.details[i].tolerance_applied
          /\ results.details[i].success
    /\ results.files_success >= 1

TotalOf(test_results) ==
    test_results[1].passed + test_results[1].failed + test_results[1].errors

\* C11: for a fixed total, when evaluate_with_tolerance accepts with p tests
\* passed it accepts with every larger number of tests passed; 9 passed of 10
\* is accepted and 8 passed of 10 is not.
C11_ToleranceMonotone ==
    (ret # <<>> /\ arg # <<>>) =>
        /\ ret[1].acceptable =>
              \A more \in CountTriples :
                  (TotalOf(more) = TotalOf(arg) /\ more[1].passed > arg[1].passed)
                      => evaluate_with_tolerance(more).acceptable
        /\ (TotalOf(arg) = 10 /\ arg[1].passed = 9) => ret[1].acceptable
        /\ (TotalOf(arg) = 10 /\ arg[1].passed = 8) => ~ret[1].acceptable

\* 9 passed of 10 is accepted, and 10 passed of 10 is a larger count
C11_Witness ==
    /\ ret # <<>>
    /\ arg = <<[passed |-> 9, failed |-> 1, errors |-> 0]>>
    /\ ret[1].acceptable


\* process_file is past the audit of the current file
PastAudit ==
    pc \in { "initial_fix", "first_judge", "loop_test", "loop_fix", "loop_judge",
             "file_returned", "raised" }

C13_InitialFixFailureTerminal ==
    initial_fix \in { "0", "raised" } =>
        /\ judge_calls = 0
        /\ gen_calls = 0
        /\ run_calls = 0
        /\ iteration = 0
        /\ FileOver => (pc = "file_returned" /\ ~file_result.success)


\* C14: an in-loop fix call that raises leaves the iteration counter, the
\* judged result and the number of judge calls as they are and takes the
\* controller back to the loop test; such an iteration has no judge call, and
\* the file still ends with a full record.
C14_RaisingFixSkipsIteration ==
    /\ [][ (pc = "loop_fix" /\ fix_raises' = fix_raises + 1)
              => /\ pc' = "loop_test"
                 /\ iteration' = iteration
                 /\ iteration >= 1
                 /\ judge_result' = judge_result
                 /\ judge_calls' = judge_calls ]_vars
    /\ [](fix_raises >= 1 =>
              /\ pc # "raised"
              /\ pc \in { "loop_test", "file_returned" }
                    => loop_judge_calls = iteration - fix_raises
              /\ pc = "file_returned"
                    => (FullRecord(file_result) /\ file_result.iterations = iteration))

\* a file with a raising fix call and a later judge call has returned
C14_Witness ==
    /\ pc = "file_returned"
    /\ fix_raises >= 1
    /\ loop_judge_calls >= 1
    /\ FullRecord(file_result)


\* the top-level functions and classes of a file: the names a `def`, an
\* `async def` or a `class` statement at the start of a line defines
TopLevelNames(content) ==
    { content[k][2] :
        k \in { i \in 1..Len(content) :
                  Len(content[i]) >= 2 /\ content[i][1] \in { "def", "class" } } }
    \cup
    { content[k][3] :
        k \in { i \in 1..Len(content) :
                  /\ Len(content[i]) >= 3
                  /\ content[i][1] = "async"
                  /\ content[i][2] = "def" } }

\* C15: a code that drops a top-level function or class name of the current
\* file, or has fewer than half of its lines, is not written to the file, and
\* apply_fixes raises.
C15_BadFixRaises ==
    (/\ ret # <<>>
     /\ ~NoIssues(arg.audit_results)
     /\ arg.readable
     /\ arg.answer.kind = "code"
     /\ \/ TopLevelNames(arg.content) \ TopLevelNames(arg.answer.code) # {}
        \/ 2 * Len(arg.answer.code) < Len(arg.content))
        => /\ ret[1].content = arg.content
           /\ ~ret[1].written
           /\ ret[1].raised

\* C16: every top-level function or class name the target file had when
\* process_file was called is in the target file after every apply_fixes
\* call.
C16_NamesPreserved ==
    TopLevelNames(original_content) \subseteq TopLevelNames(file_content)


\* C17: the tests of a file are generated by its first judge call and by no
\* judge call of the loop: one generation per judged file.
C17_TestsGeneratedOnce ==
    /\ loop_gen_calls = 0
    /\ gen_calls <= 1
    /\ judge_calls >= 1 => gen_calls = 1

\* a file judged twice inside the loop, with one test generation
C17_Witness ==
    /\ pc = "file_returned"
    /\ loop_judge_calls >= 2
    /\ gen_calls = 1

\* C18: the issue list of every in-loop fix call is non-empty: it is the list
\* of the judge's fix instructions when there are some, and otherwise one
\* HIGH/BUG instruction whose description wraps the raw error log.
C18_FixRequestNonEmpty ==
    /\ loop_fix_calls >= 1 => fix_request # <<>>
    /\ pc = "loop_judge" =>
          IF judge_result.fix_instructions # <<>>
          THEN fix_request = judge_result.fix_instructions
          ELSE /\ Len(fix_request) = 1
               /\ fix_request[1].severity = "HIGH"
               /\ fix_request[1].type = "BUG"
               /\ fix_request[1].description
                     = <<"Test failures detected:">> \o judge_result.error_logs

\* the fixer was called with the synthetic instruction
C18_Witness ==
    /\ pc = "loop_judge"
    /\ judge_result.fix_instructions = <<>>
    /\ Len(fix_request) = 1
    /\ fix_request[1].description[1] = "Test failures detected:"


\* the run completed and its output has 'ERROR' and 'collecting' in it
HasCollectionMarker ==
    /\ ret # <<>>
    /\ arg.kind = "completed"
    /\ OutputHas(arg.output, "ERROR")
    /\ OutputHasLower(arg.output, "collecting")

\* passed 0, failed 0, errors 1, success false
OneErrorUnit(r) == r.passed = 0 /\ r.failed = 0 /\ r.errors = 1 /\ ~r.success

ZeroDivisionOutput ==
    << <<"___", "test_divide_by_zero", "___">>,
       <<"E", "ZeroDivisionError", ":", "division", "by", "zero">>,
       <<"=====", "9", "passed", ",", "1", "failed", "=====">> >>

\* C20: on that output run_tests reports passed 9, failed 1, errors 0 and
\* exactly one fix instruction, whose error_type is ZeroDivisionError.
C20_ZeroDivisionInstruction ==
    (ret # <<>> /\ arg.kind = "completed" /\ arg.output = ZeroDivisionOutput)
        => /\ ret[1].passed = 9
           /\ ret[1].failed = 1
           /\ ret[1].errors = 0
           /\ Len(ret[1].fix_instructions) = 1
           /\ ret[1].fix_instructions[1].error_type = "ZeroDivisionError"


\* the judged result comes from a test run that timed out or raised
IsFailedRun(jr) ==
    /\ jr.test_results # <<>>
    /\ jr.test_results[1].output \in { TimeoutMsg, ExceptionMsg }

\* C21: a test run that times out or raises is judged as passed 0, failed 0,
\* errors 1 with success false and exactly one HIGH/BUG instruction; the
\* loop then goes into its next iteration while the budget lasts, and the
\* file ends with a full record.
C21_TimeoutIsOneErrorUnit ==
    /\ [](IsFailedRun(judge_result) =>
              /\ pc # "raised"
              /\ ~judge_result.success
              /\ OneErrorUnit(judge_result.test_results[1])
              /\ Len(judge_result.fix_instructions) = 1
              /\ judge_result.fix_instructions[1].severity = "HIGH"
              /\ judge_result.fix_instructions[1].type = "BUG"
              /\ pc = "file_returned"
                    => (FullRecord(file_result) /\ file_result.iterations = MAX_ITERATIONS))
    /\ [][ (pc = "loop_test" /\ IsFailedRun(judge_result) /\ iteration < MAX_ITERATIONS)
              => (pc' = "loop_fix" /\ iteration' = iteration + 1) ]_vars

\* the fix of a second iteration is about to be made after a timeout
C21_Witness ==
    /\ pc = "loop_fix"
    /\ iteration >= 2
    /\ judge_result.test_results # <<>>
    /\ judge_result.test_results[1].output = TimeoutMsg


\* process_file is running on the current file
InFile ==
    pc \in { "audit", "initial_fix", "first_judge", "loop_test", "loop_fix",
             "loop_judge", "file_returned", "raised" }

\* C22: process_file is called on the files in list order, on each file
\* once, and on a file only when the one before has been tallied; the tally
\* satisfies files_processed = files_success + files_failed = the number of
\* records in details, files_success counts the records with success true,
\* and when the mission is over every file has been processed and tallied.
C22_MissionTally ==
    /\ Len(calls) <= Len(python_files)
    /\ \A i \in 1..Len(calls) : calls[i] = python_files[i]
    /\ "details" \in DOMAIN results =>
          /\ results.files_processed = results.files_success + results.files_failed
          /\ results.files_processed = Len(results.details)
          /\ results.files_success = SuccessCount(results.details)
          /\ \A i \in 1..Len(results.details) : results.details[i].file = python_files[i]
          /\ InFile => Len(calls) = results.files_processed + 1
          /\ pc = "next_file" => Len(calls) = results.files_processed
    /\ (pc \in { "swarm_returned", "raised" } /\ python_files # <<>>) =>
          /\ calls = python_files
          /\ results.files_processed = Len(python_files)


\* the process has exited
HasExited == pc \in { "exit_0", "exit_1" }

\* C23: the process exits with a non-zero status when the record of a
\* processed file has success false, and with status 0 when the mission went
\* through all its files and every record has success true.
C23_ExitStatus ==
    (HasExited /\ "details" \in DOMAIN results) =>
        /\ (\E i \in 1..Len(results.details) : ~results.details[i].success)
              => pc = "exit_1"
        /\ (/\ Len(results.details) = Len(python_files)
            /\ \A i \in 1..Len(results.details) : results.details[i].success)
              => pc = "exit_0"

\* the process exited with status 1 after one file failed and one was tolerated
C23_Witness ==
    /\ pc = "exit_1"
    /\ "details" \in DOMAIN results
    /\ Len(results.details) = 2
    /\ \E i \in 1..2 : ~results.details[i].success
    /\ \E i \in 1..2 : FullRecord(results.details[i]) /\ results.details[i].tolerance_applied


\* C24: apply_fixes on an empty or missing issue list does not read the
\* file, does not call the LLM, writes nothing and returns; the initial fix
\* of a file whose audit found no issue leaves the file as it was and the
\* controller goes on to the first judge call.
C24_NoIssuesNoOp ==
    /\ pc = "initial_fix" =>
          \A audit_results \in { [issues |-> <<>>], [file_path |-> "f.py"] },
             readable \in BOOLEAN, answer \in Answers :
             LET fix == apply_fixes(audit_results, readable, file_content, answer)
             IN /\ ~fix.read
                /\ ~fix.asked
                /\ ~fix.written
                /\ ~fix.raised
                /\ fix.content = file_content
    /\ (audit_calls = 1 /\ ~audit_raised /\ audit_result = <<>> /\ fix_calls >= 1) =>
          /\ initial_fix = "1"
          /\ judge_calls = 0 => (pc = "first_judge" /\ file_content = original_content)

\* the initial fix of a file without issues has been made
C24_Witness ==
    /\ pc = "first_judge"
    /\ audit_result = <<>>
    /\ fix_calls = 1
    /\ file_content = original_content


\* C25: a fix is never rolled back: a judge call leaves the target file as
\* the latest fix left it, and between a judge call and the next fix call
\* nothing touches it; the file changes only when process_file starts on it
\* and in the two fix calls.
C25_NoRollback ==
    [][ /\ pc \in {"first_judge", "loop_judge", "loop_test"} =>
             file_content' = file_content
        /\ file_content' # file_content =>
             pc \in {"next_file", "initial_fix", "loop_fix"} ]_vars

\* a judge call has failed on a fixed file and the next fix call is due
C25_Witness ==
    /\ pc = "loop_fix"
    /\ loop_judge_calls >= 1
    /\ ~judge_result.success
    /\ file_content # original_content


\* C26: the pylint scores do not influence the verdict: the record returned
\* for a file has the success, tolerance_applied and iterations values that
\* the last judge result and the iteration counter alone determine, and the
\* record built from the same outcome with any other scores has the same
\* three values.
C26_ScoresDoNotDecide ==
    (pc = "file_returned" /\ FullRecord(file_result)) =>
        /\ file_result.success = (judge_result.success \/ ToleranceApplied(judge_result))
        /\ file_result.tolerance_applied = ToleranceApplied(judge_result)
        /\ file_result.iterations = iteration
        /\ \A scores \in ScorePairs :
              LET r == FinalRecord(python_files[file_idx], judge_result, iteration,
                                   scores[1], scores[2])
              IN /\ r.success = file_result.success
                 /\ r.tolerance_applied = file_result.tolerance_applied
                 /\ r.iterations = file_result.iterations

\* two files of one mission came to the same outcome with different scores
C26_Witness ==
    /\ pc = "swarm_returned"
    /\ "details" \in DOMAIN results
    /\ Len(results.details) = 2
    /\ FullRecord(results.details[1])
    /\ FullRecord(results.details[2])
    /\ results.details[1].initial_score # results.details[2].initial_score
    /\ results.details[1].final_score # results.details[2].final_score
    /\ results.details[1].iterations = results.details[2].iterations
    /\ results.details[1].iterations >= 1
    /\ results.details[1].success = results.details[2].success
    /\ results.details[1].tolerance_applied = results.details[2].tolerance_applied


\* the output reports collected items: every 'collected N items' report of
\* the output has N >= 1, and there is one
ReportsCollectedItems(output) ==
    /\ \E k \in 1..Len(output) : CollectedMatches(output[k]) # {}
    /\ \A k \in 1..Len(output) : \A i \in CollectedMatches(output[k]) :
          NumVal[output[k][i + 1]] >= 1

\* the output has no 'collected' marker at all
NoCollectedMarker(output) == ~OutputHas(output, "collected")

\* no summary line of the output gives a non-zero count
AllCountsZero(output) ==
    ScanSummaryLines(output, 1, [passed |-> 0, failed |-> 0, errors |-> 0])
        = [passed |-> 0, failed |-> 0, errors |-> 0]

\* the case of C27 has been interpreted
DegenerateCase ==
    /\ pc = "run_tests"
    /\ ret # <<>>
    /\ arg.kind = "completed"
    /\ ~HasCollectionMarker
    /\ AllCountsZero(arg.output)
    /\ (ReportsCollectedItems(arg.output) \/ NoCollectedMarker(arg.output))

\* C27: degenerate parse: without a collection-failure marker, with all
\* three counts parsed as zero, an output that reports one or more collected
\* items, or that has no 'collected' marker at all, is interpreted as
\* passed 0, failed 0, errors 1.
C27_DegenerateParse ==
    DegenerateCase
        => (ret[1].passed = 0 /\ ret[1].failed = 0 /\ ret[1].errors = 1)

\* two items collected and a summary line that counts only skipped tests
C27_Witness ==
    /\ DegenerateCase
    /\ ReportsCollectedItems(arg.output)
    /\ \E k \in 1..Len(arg.output) : arg.output[k] = <<"=====", "1", "skipped", "=====">>


\* the lines a reader takes for summary lines: the separator with 'passed'
\* or 'failed'
SummaryLines(output) ==
    { k \in 1..Len(output) :
        /\ LineHas(output[k], "=====")
        /\ (LineHas(output[k], "passed") \/ LineHas(output[k], "failed")) }

Max(S) == CHOOSE x \in S : \A y \in S : y <= x

\* the count of a category on one line, zero when the line omits it
CountOn(line, word) ==
    IF \E i \in 1..(Len(line) - 1) : IsNum(line[i]) /\ Has(line[i + 1], word)
    THEN NumVal[line[Min({ i \in 1..(Len(line) - 1) :
                             IsNum(line[i]) /\ Has(line[i + 1], word) })]]
    ELSE 0

\* a completed run without a collection-failure marker whose output has a
\* summary line
NormalCompletion ==
    /\ pc = "run_tests"
    /\ ret # <<>>
    /\ arg.kind = "completed"
    /\ ~HasCollectionMarker
    /\ ~OutputHasPhraseLower(arg.output, <<"no", "tests", "ran">>)
    /\ ~OutputHasPhraseLower(arg.output, <<"0", "items", "collected">>)
    /\ SummaryLines(arg.output) # {}

\* C28: on normal completion the counts are those of the final summary
\* line, a category that line omits being zero, also when an earlier line of
\* the output has the separator and 'passed' or 'failed': no count of an
\* earlier line survives into the result.
C28_SummaryLineCounts ==
    NormalCompletion =>
        LET last == arg.output[Max(SummaryLines(arg.output))]
        IN /\ ret[1].passed = CountOn(last, "passed")
           /\ ret[1].failed = CountOn(last, "failed")
           /\ ret[1].errors = CountOn(last, "error")

\* C28 on the outputs with one summary line only
C28_SingleSummaryLine ==
    (NormalCompletion /\ Cardinality(SummaryLines(arg.output)) = 1) =>
        LET last == arg.output[Max(SummaryLines(arg.output))]
        IN /\ ret[1].passed = CountOn(last, "passed")
           /\ ret[1].failed = CountOn(last, "failed")
           /\ ret[1].errors = CountOn(last, "error")


\* the completed run is classified as a collection failure: 'ERROR' with
\* 'collecting', 'no tests ran' or '0 items collected'
ClassifiedCollectionFailure ==
    /\ ret # <<>>
    /\ arg.kind = "completed"
    /\ \/ OutputHas(arg.output, "ERROR") /\ OutputHasLower(arg.output, "collecting")
       \/ OutputHasPhraseLower(arg.output, <<"no", "tests", "ran">>)
       \/ OutputHasPhraseLower(arg.output, <<"0", "items", "collected">>)

\* C29: the success flag of the interpreter is true exactly when the parsed
\* failed count and the parsed errors count are both zero, and a run
\* classified as a collection failure has success false.
C29_SuccessFlag ==
    (pc = "run_tests" /\ ret # <<>>) =>
        /\ ret[1].success <=> (ret[1].failed = 0 /\ ret[1].errors = 0)
        /\ ClassifiedCollectionFailure => ~ret[1].success

\* 'no tests ran' next to a summary line that reports only passed tests
C29_Witness ==
    /\ pc = "run_tests"
    /\ ClassifiedCollectionFailure
    /\ OutputHasPhraseLower(arg.output, <<"no", "tests", "ran">>)
    /\ \E k \in 1..Len(arg.output) : arg.output[k] = <<"=====", "2", "passed", "=====">>
    /\ ~ret[1].success


\* the header lines '___ test_name ___' of the output for one test
HeaderLines(output, name) ==
    { k \in 1..Len(output) : output[k] = <<"___", name, "___">> }

\* the instructions returned for one test
InstructionsFor(fix_instructions, name) ==
    { i \in 1..Len(fix_instructions) : fix_instructions[i].test_name = name }

\* a failed run whose output has been decomposed
Decomposed ==
    /\ pc = "run_tests"
    /\ ret # <<>>
    /\ arg.kind = "completed"
    /\ ~ret[1].success

\* C30: failure decomposition yields exactly one fix instruction per
\* per-test failure section of the output, a section being a
\* '___ test_name ___' header followed by its block, whatever the block
\* holds: a test with n >= 1 sections gets n instructions, each HIGH / BUG
\* and carrying the test name.
C30_OneInstructionPerSection ==
    Decomposed =>
        \A name \in TestNames :
            HeaderLines(arg.output, name) # {} =>
                /\ Cardinality(InstructionsFor(ret[1].fix_instructions, name))
                      = Cardinality(HeaderLines(arg.output, name))
                /\ \A i \in InstructionsFor(ret[1].fix_instructions, name) :
                      /\ ret[1].fix_instructions[i].severity = "HIGH"
                      /\ ret[1].fix_instructions[i].type = "BUG"

\* two sections with empty blocks, of different tests, and nothing else
C30_Witness ==
    /\ Decomposed
    /\ arg.output = << <<"___", "test_a", "___">>, <<"___", "test_b", "___">> >>
    /\ Len(ret[1].fix_instructions) = 2


\* the lines of the short summary that list one test
SummaryListings(output, name) ==
    { k \in 1..Len(output) :
        /\ SummaryMatches(output[k]) # {}
        /\ SummaryFailure(output[k]).test_name = name }

\* C31: the short-summary cross-check adds an instruction for a listed test
\* only when no section-derived instruction has its name: a test with a
\* section gets no further instruction from the summary scan, and a listed
\* test without a section gets exactly one instruction.
C31_SummaryCrossCheck ==
    Decomposed =>
        \A name \in TestNames :
            /\ HeaderLines(arg.output, name) # {} =>
                  Cardinality(InstructionsFor(ret[1].fix_instructions, name))
                      = Cardinality(HeaderLines(arg.output, name))
            /\ (HeaderLines(arg.output, name) = {} /\ SummaryListings(arg.output, name) # {}) =>
                  Cardinality(InstructionsFor(ret[1].fix_instructions, name)) = 1

\* C31 on the outputs whose short summary lists no test twice
C31_ListedOnce ==
    (Decomposed /\ \A name \in TestNames : Cardinality(SummaryListings(arg.output, name)) <= 1)
        => \A name \in TestNames :
            /\ HeaderLines(arg.output, name) # {} =>
                  Cardinality(InstructionsFor(ret[1].fix_instructions, name))
                      = Cardinality(HeaderLines(arg.output, name))
            /\ (HeaderLines(arg.output, name) = {} /\ SummaryListings(arg.output, name) # {}) =>
                  Cardinality(InstructionsFor(ret[1].fix_instructions, name)) = 1


\* the catalog of error types: assertion, type, value, attribute, key, index
CatalogEntries ==
    { "AssertionError", "TypeError", "ValueError", "AttributeError", "KeyError",
      "IndexError" }

\* the catalog entries the text of a section matches
MatchingEntries(content) == { e \in CatalogEntries : SeqHas(content, e) }

\* C32: the error_type of a section-derived instruction is the catalog entry
\* that the text of the section matches, and 'unknown' when the text matches
\* no entry of the catalog.
C32_CatalogOrUnknown ==
    Decomposed =>
        LET ss == FailureSections(arg.output)
            fi == ret[1].fix_instructions
        IN \A i \in 1..Len(ss) :
              /\ i <= Len(fi)
              /\ \A e \in CatalogEntries :
                    MatchingEntries(ss[i].content) = {e} => fi[i].error_type = e
              /\ MatchingEntries(ss[i].content) = {} => fi[i].error_type = "unknown"

\* C32 without its 'unknown' half: a section that matches one catalog entry
\* gets that entry
C32_CatalogMatch ==
    Decomposed =>
        LET ss == FailureSections(arg.output)
            fi == ret[1].fix_instructions
        IN \A i \in 1..Len(ss) :
              /\ i <= Len(fi)
              /\ \A e \in CatalogEntries :
                    MatchingEntries(ss[i].content) = {e} => fi[i].error_type = e


\* every instruction of the list has a description and a suggestion
Worded(instructions) ==
    \A i \in 1..Len(instructions) :
        /\ instructions[i].description # <<>>
        /\ instructions[i].suggestion # <<>>

\* C33: every fix instruction handed to the fixer in the repair loop has a
\* non-empty description and a non-empty suggestion: the instructions of
\* the judge on a failed run (section-derived, summary-derived, generic,
\* timeout, execution error), the one of a failed test generation, and the
\* controller's synthetic instruction when the judge gives none.
C33_WordedInstructions ==
    (pc = "run_tests" /\ ret # <<>> /\ ~ret[1].success) =>
        LET jr == judge(FALSE, TRUE, TRUE, ret[1])
        IN /\ Worded(jr.fix_instructions)
           /\ FixRequest(jr) # <<>>
           /\ Worded(FixRequest(jr))
           /\ Worded(GenerationFailed.fix_instructions)
           /\ Worded(FixRequest(GenerationFailed))

\* a section-derived and a summary-derived instruction in one request
C33_Witness ==
    /\ pc = "run_tests"
    /\ ret # <<>>
    /\ arg.kind = "completed"
    /\ ~ret[1].success
    /\ HeaderLines(arg.output, "test_b") # {}
    /\ SummaryListings(arg.output, "test_a") # {}
    /\ Len(FixRequest(judge(FALSE, TRUE, TRUE, ret[1]))) = 2


\* the result of a judge call that stopped at the failed test generation
StoppedAtGeneration(jr) ==
    /\ ~jr.success
    /\ jr.verdict = "FAIL"
    /\ jr.test_results = <<>>
    /\ Len(jr.fix_instructions) = 1
    /\ jr.fix_instructions[1].severity = "HIGH"
    /\ jr.fix_instructions[1].type = "BUG"

\* one judge call: it stopped at the generation, or it ran the tests
JudgeCallStopsOrRuns ==
    /\ ~test_file_exists' =>
          (StoppedAtGeneration(judge_result') /\ run_calls' = run_calls)
    /\ judge_result'.test_results = <<>> =>
          /\ StoppedAtGeneration(judge_result')
          /\ gen_calls' = gen_calls + 1
          /\ run_calls' = run_calls
    /\ run_calls' = run_calls => StoppedAtGeneration(judge_result')

\* C34: when test generation fails, judge returns at once with success
\* false, verdict FAIL, no test results and exactly one synthetic HIGH / BUG
\* fix instruction, and runs no test: a judge call that leaves no test file
\* behind, or that returns no test results, made one generate_tests call
\* and no run_tests call, and every other judge call ran the tests.
C34_GenerationFailure ==
    [][(pc \in {"first_judge", "loop_judge"}) => JudgeCallStopsOrRuns]_vars

\* the first judge call of a file has failed to generate the tests
C34_Witness ==
    /\ pc = "loop_test"
    /\ judge_calls = 1
    /\ ~test_file_exists
    /\ StoppedAtGeneration(judge_result)
    /\ gen_calls = 1
    /\ run_calls = 0


\* apply_fixes has been called with issues, on a readable file, and the LLM
\* has answered with a non-empty candidate
CandidateValidated ==
    /\ pc = "apply_fixes"
    /\ ret # <<>>
    /\ ~NoIssues(arg.audit_results)
    /\ arg.readable
    /\ arg.answer.kind = "code"
    /\ arg.answer.code # <<>>

\* C35: the size validation rejects a candidate exactly when its line count
\* is strictly less than half of the line count of the current file: such a
\* candidate is never written, and a candidate with half the lines or more
\* that keeps the top-level names is written.
C35_HalfTheLines ==
    CandidateValidated =>
        /\ 2 * Len(arg.answer.code) < Len(arg.content) =>
              (~ret[1].written /\ ret[1].content = arg.content)
        /\ (2 * Len(arg.answer.code) >= Len(arg.content)
              /\ ~NamesMissing(arg.answer.code, arg.content)) =>
              (ret[1].written /\ ret[1].content = arg.answer.code)

\* a candidate with exactly half the lines of the file has been written
C35_Witness ==
    /\ CandidateValidated
    /\ Len(arg.content) = 4
    /\ Len(arg.answer.code) = 2
    /\ ret[1].written
    /\ ret[1].content = arg.answer.code


\* C36: tolerance is consulted only after exhaustion: a final record with
\* tolerance_applied true reports MAX_ITERATIONS iterations, comes from a
\* last judged result that was not successful, and has success true; a
\* record whose last judged result is successful has tolerance_applied
\* false. The records already tallied keep the first and the third of these.
C36_ToleranceAfterExhaustion ==
    /\ (pc = "file_returned" /\ FullRecord(file_result)) =>
          /\ file_result.tolerance_applied =>
                /\ file_result.iterations = MAX_ITERATIONS
                /\ ~judge_result.success
                /\ file_result.success
          /\ judge_result.success => ~file_result.tolerance_applied
    /\ "details" \in DOMAIN results =>
          \A i \in 1..Len(results.details) :
              (FullRecord(results.details[i]) /\ results.details[i].tolerance_applied) =>
                  /\ results.details[i].iterations = MAX_ITERATIONS
                  /\ results.details[i].success

\* a file has been accepted by tolerance
C36_Witness ==
    /\ pc = "file_returned"
    /\ FullRecord(file_result)
    /\ file_result.tolerance_applied
    /\ file_result.iterations = MAX_ITERATIONS
    /\ loop_judge_calls >= 1


\* apply_fixes got as far as the LLM call and did not accept a candidate:
\* the call failed, or the candidate is empty, too short or misses a name
CandidateNotAccepted ==
    /\ pc = "apply_fixes"
    /\ ret # <<>>
    /\ ~NoIssues(arg.audit_results)
    /\ arg.readable
    /\ \/ arg.answer.kind = "raises"
       \/ /\ arg.answer.kind = "code"
          /\ \/ arg.answer.code = <<>>
             \/ 2 * Len(arg.answer.code) < Len(arg.content)
             \/ NamesMissing(arg.answer.code, arg.content)

\* C37: whenever apply_fixes does not accept a candidate fix, the content
\* of the target file is what it was before the call: the file is written
\* only when the LLM has answered and the candidate is non-empty, long
\* enough and keeps the names.
C37_WrittenAfterValidation ==
    /\ CandidateNotAccepted =>
          (~ret[1].written /\ ret[1].content = arg.content)
    /\ (pc = "apply_fixes" /\ ret # <<>> /\ ret[1].written) =>
          /\ arg.answer.kind = "code"
          /\ arg.answer.code # <<>>
          /\ 2 * Len(arg.answer.code) >= Len(arg.content)
          /\ ~NamesMissing(arg.answer.code, arg.content)
    /\ (pc = "apply_fixes" /\ ret # <<>> /\ ~ret[1].written) =>
          ret[1].content = arg.content

\* a candidate that drops the class K of the file has been turned down
C37_Witness ==
    /\ CandidateNotAccepted
    /\ arg.answer.kind = "code"
    /\ arg.answer.code # <<>>
    /\ arg.answer.code # arg.content
    /\ "K" \in ClassNames(arg.content) \ ClassNames(arg.answer.code)
    /\ ret[1].content = arg.content


\* the audit has been made on a file that cannot be read, or with an LLM
\* call that fails or whose response cannot be parsed
AuditFailureCase ==
    /\ ret # <<>>
    /\ audit_calls = 1
    /\ "llm" \in DOMAIN arg
    /\ (~arg.readable \/ arg.llm.kind \in {"raises", "no_json", "bad_json", "null_issues"})

\* C38: analyze_file does not raise when the file cannot be read or when the
\* LLM call or the parsing of its response fails: it returns an analysis
\* with an issues list, the error analysis with one HIGH / BUG issue for an
\* unreadable file and the pylint-based fallback otherwise, and process_file
\* goes on to the initial fix instead of returning the audit-failed record.
C38_AuditFailuresAreAnalyses ==
    AuditFailureCase =>
        /\ ~ret[1].raised
        /\ ~audit_raised
        /\ pc = "initial_fix"
        /\ file_result = NoRecord
        /\ audit_result = ret[1].issues
        /\ ~arg.readable =>
              /\ ret[1].summary = "error"
              /\ Len(ret[1].issues) = 1
              /\ ret[1].issues[1].severity = "HIGH"
              /\ ret[1].issues[1].type = "BUG"
        /\ arg.readable =>
              /\ ret[1].summary = "fallback"
              /\ Len(ret[1].issues) = Len(arg.pylint_messages)
                                        + (IF arg.syntax_valid THEN 0 ELSE 1)

\* the LLM answered without JSON on a readable file with a syntax error and
\* one pylint message
C38_Witness ==
    /\ AuditFailureCase
    /\ arg.readable
    /\ arg.llm.kind = "no_json"
    /\ ~arg.syntax_valid
    /\ Len(arg.pylint_messages) = 1
    /\ pc = "initial_fix"
    /\ Len(audit_result) = 2


\* C39: when run_swarm returns early without processing any file (the
\* agents could not be built, or no Python file was found) its result has
\* success false and no files_failed entry, and main exits with status 0.
C39_EarlyReturnExitsZero ==
    /\ "error" \in DOMAIN results =>
          /\ pc \in { "swarm_returned", "exit_0" }
          /\ calls = <<>>
          /\ "success" \in DOMAIN results
          /\ ~results.success
          /\ "files_failed" \notin DOMAIN results
          /\ results.error \in { "str(e)", "No Python files found" }
    /\ (pc = "swarm_returned" /\ calls = <<>>) => "error" \in DOMAIN results

\* main has exited after a mission that found no Python file
C39_Witness ==
    /\ pc = "exit_0"
    /\ "error" \in DOMAIN results
    /\ results.error = "No Python files found"
    /\ calls = <<>>

====
